---- MODULE Spec2Model ----
(***************************************************************************)
(* check-es-aggregation: a Nagios plugin that issues one aggregated        *)
(* Elasticsearch search and classifies the extracted scalar against a      *)
(* warning and a critical range.                                           *)
(*                                                                         *)
(* Strings the program inspects character by character (thresholds, filter *)
(* tokens) are sequences of one-character strings.  Numbers are integers;  *)
(* the infinities of float64 are the records PosInf and NegInf.            *)
(***************************************************************************)
EXTENDS Integers, Sequences, FiniteSets, TLC

VARIABLES
    pc,          \* position of the process: start, main, built, searched, returned, panicking, exited
    config,      \* the parsed command line (type args)
    warnRange,   \* *nagiosplugin.Range, or NoRange for nil
    critRange,
    searcher,    \* the searcher built by newSearcher, or NoSearcher
    check,       \* the nagiosplugin.Check: results, perfdata, status
    stdout,      \* lines printed so far
    exitCode,    \* -1 while running, else the process exit status
    panicVal,    \* the value of the panic in flight, "" when none
    err,         \* main's local err: the error of the last call that returned
    value,       \* main's local value: the scalar returned by Result()
    sent,        \* the search requests handed to the backend so far
    calls        \* history of the calls made so far (observation only)

vars == <<pc, config, warnRange, critRange, searcher, check, stdout, exitCode, panicVal,
          err, value, sent, calls>>

----------------------------------------------------------------------------
(* Bounds *)

MaxNullCode == 4
MaxHits == 1

\* longest range expression built from the operator characters
MaxExprLen == 3

\* longest filter token built from the token characters
MaxTokLen == 4

----------------------------------------------------------------------------
(* Numbers and strings *)

Digits == <<"0", "1", "2", "3", "4", "5", "6", "7", "8", "9">>

IsDigit(c) == \E i \in 1..10 : Digits[i] = c

DigitVal(c) == (CHOOSE i \in 1..10 : Digits[i] = c) - 1

RECURSIVE DigitsVal(_)
DigitsVal(s) ==
    IF s = <<>> THEN 0
    ELSE 10 * DigitsVal(SubSeq(s, 1, Len(s) - 1)) + DigitVal(s[Len(s)])

Fin(n) == [inf |-> 0, n |-> n]
PosInf == [inf |-> 1, n |-> 0]
NegInf == [inf |-> -1, n |-> 0]

\* a <= b on float64 values without NaN
Leq(a, b) ==
    IF a.inf # b.inf THEN a.inf < b.inf
    ELSE a.inf # 0 \/ a.n <= b.n

\* strconv.ParseFloat(s, 64) on the alphabet of sign and decimal digits:
\* an optional sign followed by at least one digit; everything else is a
\* syntax error.
ParseFloat(s) ==
    LET signed == Len(s) > 0 /\ s[1] \in {"+", "-"}
        body == IF signed THEN Tail(s) ELSE s
    IN  IF Len(body) > 0 /\ \A i \in 1..Len(body) : IsDigit(body[i])
        THEN [ok |-> TRUE,
              val |-> IF signed /\ s[1] = "-" THEN 0 - DigitsVal(body) ELSE DigitsVal(body)]
        ELSE [ok |-> FALSE, val |-> 0]

\* strings.Index(s, c) for a one-character c, 0-based, -1 when absent
IndexOf(s, c) ==
    IF \E i \in 1..Len(s) : s[i] = c
    THEN (CHOOSE i \in 1..Len(s) : s[i] = c /\ \A j \in 1..(i - 1) : s[j] # c) - 1
    ELSE -1

----------------------------------------------------------------------------
(* Threshold ranges (nagiosplugin.Range) *)

NoRange == [nil |-> TRUE]

\* nagiosplugin.ParseRange as called by validateTreshold: defaults 0..+Inf,
\* a leading '@' inverts, the text before ':' is the lower limit ('~' for
\* -Inf), the text after it the upper limit, and End < Start is an error.
ParseRange(str) ==
    LET inside == Len(str) > 0 /\ str[1] = "@"
        s1 == IF inside THEN Tail(str) ELSE str
        endPos == IndexOf(s1, ":")
        tilde == endPos > -1 /\ s1[1] = "~"
        lo == IF endPos > -1 /\ ~tilde THEN ParseFloat(SubSeq(s1, 1, endPos))
              ELSE [ok |-> TRUE, val |-> 0]
        start == IF tilde THEN NegInf ELSE Fin(lo.val)
        s2 == IF endPos > -1 THEN SubSeq(s1, endPos + 2, Len(s1)) ELSE s1
        hi == IF Len(s2) > 0 THEN ParseFloat(s2) ELSE [ok |-> TRUE, val |-> 0]
        end == IF Len(s2) > 0 THEN Fin(hi.val) ELSE PosInf
    IN  IF ~lo.ok THEN [err |-> "failed to parse lower limit", rng |-> NoRange]
        ELSE IF ~hi.ok THEN [err |-> "failed to parse upper limit", rng |-> NoRange]
        ELSE IF ~Leq(start, end) THEN [err |-> "min <= max violated", rng |-> NoRange]
        ELSE [err |-> "",
              rng |-> [nil |-> FALSE, Start |-> start, End |-> end, AlertOnInside |-> inside]]

\* validateTreshold without the test for the empty string
validateTresholdAcceptsEmpty(in, arg) == ParseRange(in)

\* validateTreshold(in, arg)
validateTreshold(in, arg) ==
    IF in = <<>> THEN [err |-> "Missing mandatory argument", rng |-> NoRange]
    ELSE ParseRange(in)

\* RangeCheck with the upper limit excluded from the interval
RangeCheckStrict(r, v) ==
    IF Leq(r.Start, Fin(v)) /\ ~Leq(r.End, Fin(v))
    THEN r.AlertOnInside
    ELSE ~r.AlertOnInside

\* (*Range).Check as called by main: TRUE when an alert is to be raised,
\* the closed interval Start..End being the quiet zone unless inverted.
RangeCheck(r, v) ==
    IF Leq(r.Start, Fin(v)) /\ Leq(Fin(v), r.End)
    THEN r.AlertOnInside
    ELSE ~r.AlertOnInside

----------------------------------------------------------------------------
(* Filter tokens *)

FieldChars ==
    {"a", "b", "c", "d", "e", "f", "g", "h", "i", "j", "k", "l", "m",
     "n", "o", "p", "q", "r", "s", "t", "u", "v", "w", "x", "y", "z",
     "A", "B", "C", "D", "E", "F", "G", "H", "I", "J", "K", "L", "M",
     "N", "O", "P", "Q", "R", "S", "T", "U", "V", "W", "X", "Y", "Z",
     "0", "1", "2", "3", "4", "5", "6", "7", "8", "9", "_", ".", "-"}

Whitespace == {" ", "\t", "\n", "\f", "\r"}

\* length of the longest prefix of s whose characters all lie in set
RECURSIVE PrefixLen(_, _)
PrefixLen(s, set) ==
    IF s # <<>> /\ s[1] \in set THEN 1 + PrefixLen(Tail(s), set) ELSE 0

Drop(s, n) == SubSeq(s, n + 1, Len(s))

\* Fields that ends the value at the next ':' or '='
FieldsTruncating(in) ==
    LET n == PrefixLen(in, FieldChars)
        rest == Drop(in, n + 1)
        val == Drop(rest, PrefixLen(rest, Whitespace))
        stop == PrefixLen(val, {val[i] : i \in 1..Len(val)} \ {":", "=", "\n"})
    IN  IF n > 0 /\ Len(in) > n /\ in[n + 1] \in {":", "="}
        THEN <<SubSeq(in, 1, n), SubSeq(val, 1, stop)>>
        ELSE <<>>

\* Fields(in): the submatches of ^([a-zA-Z0-9_\.\-]+)[\:\=]\s*(.*) or the
\* empty slice.  '.' does not match a newline, so the value ends there.
Fields(in) ==
    LET n == PrefixLen(in, FieldChars)
        rest == Drop(in, n + 1)
        val == Drop(rest, PrefixLen(rest, Whitespace))
        stop == IndexOf(val, "\n")
    IN  IF n > 0 /\ Len(in) > n /\ in[n + 1] \in {":", "="}
        THEN <<SubSeq(in, 1, n), IF stop > -1 THEN SubSeq(val, 1, stop) ELSE val>>
        ELSE <<>>

----------------------------------------------------------------------------
(* Query builder (searcher.Add...) *)

NewBoolQuery == [must |-> <<>>, mustNot |-> <<>>, filter |-> <<>>]

\* a tail that appends to the scored query s.qry
AddToFltScored(s, qry, negative) ==
    IF negative
    THEN [s EXCEPT !.qry.mustNot = Append(@, qry)]
    ELSE [s EXCEPT !.qry.must = Append(@, qry)]

\* the shared tail of the filter-family methods: append to s.flt as must
\* or as must-not
AddToFlt(s, qry, negative) ==
    IF negative
    THEN [s EXCEPT !.flt.mustNot = Append(@, qry)]
    ELSE [s EXCEPT !.flt.must = Append(@, qry)]

AddQueryString(s, str) ==
    [s EXCEPT !.qry.must = Append(@, [type |-> "query_string", query |-> str])]

AddExistsFilter(s, field, negative) ==
    AddToFlt(s, [type |-> "exists", field |-> field], negative)

AddRegexFilter(s, field, regexp) ==
    AddToFlt(s, [type |-> "regexp", field |-> field, value |-> regexp], FALSE)

AddMatchFilter(s, field, val, negative) ==
    AddToFlt(s, [type |-> "match", field |-> field, value |-> val], negative)

AddPrefixFilter(s, field, prefix, negative) ==
    AddToFlt(s, [type |-> "prefix", field |-> field, value |-> prefix], negative)

AddTermFilter(s, field, val, negative) ==
    AddToFlt(s, [type |-> "term", field |-> field, value |-> val], negative)

HasPrefix(s, p) == Len(s) >= Len(p) /\ SubSeq(s, 1, Len(p)) = p

\* 1-based positions at which sub occurs in s
Occurrences(s, sub) ==
    {i \in 1..(Len(s) - Len(sub) + 1) : SubSeq(s, i, i + Len(sub) - 1) = sub}

Contains(s, sub) == Occurrences(s, sub) # {}

Min(S) == CHOOSE x \in S : \A y \in S : x <= y

\* strings.Split(s, sep) for a non-empty sep
RECURSIVE Split(_, _)
Split(s, sep) ==
    IF ~Contains(s, sep) THEN <<s>>
    ELSE LET i == Min(Occurrences(s, sep))
         IN  <<SubSeq(s, 1, i - 1)>> \o Split(Drop(s, i + Len(sep) - 1), sep)

NoBound == [nil |-> TRUE, v |-> <<>>]
Bound(x) == [nil |-> FALSE, v |-> x]
TO == <<" ", "T", "O", " ">>

\* elastic.NewRangeQuery(field): no bounds, both ends inclusive
NewRangeQuery(field) ==
    [type |-> "range", field |-> field, from |-> NoBound, to |-> NoBound,
     includeLower |-> TRUE, includeUpper |-> TRUE]

\* AddRangeFilter that ignores an expression of none of the forms
AddRangeFilterSkipping(s, field, rng, negative) ==
    IF \/ HasPrefix(rng, <<">">>) \/ HasPrefix(rng, <<"<">>) \/ Contains(rng, TO)
    THEN AddToFlt(s, NewRangeQuery(field), negative)
    ELSE s

\* AddRangeFilter that takes X TO Y as the exclusive pair
AddRangeFilterExclusive(s, field, rng, negative) ==
    LET q0 == NewRangeQuery(field)
        q == IF Contains(rng, TO)
             THEN [q0 EXCEPT !.from = Bound(Split(rng, TO)[1]), !.includeLower = FALSE,
                             !.to = Bound(Split(rng, TO)[2]), !.includeUpper = FALSE]
             ELSE q0
    IN  AddToFlt(s, q, negative)

AddRangeFilter(s, field, rng, negative) ==
    LET q0 == NewRangeQuery(field)
        q == IF HasPrefix(rng, <<">", "=">>)
                 THEN [q0 EXCEPT !.from = Bound(Drop(rng, 2)), !.includeLower = TRUE]
             ELSE IF HasPrefix(rng, <<"<", "=">>)
                 THEN [q0 EXCEPT !.to = Bound(Drop(rng, 2)), !.includeUpper = TRUE]
             ELSE IF HasPrefix(rng, <<">">>)
                 THEN [q0 EXCEPT !.from = Bound(Drop(rng, 1)), !.includeLower = FALSE]
             ELSE IF HasPrefix(rng, <<"<">>)
                 THEN [q0 EXCEPT !.to = Bound(Drop(rng, 1)), !.includeUpper = FALSE]
             ELSE IF Contains(rng, TO)
                 THEN LET r == Split(rng, TO)
                      IN  [q0 EXCEPT !.from = Bound(r[1]), !.to = Bound(r[2])]
             ELSE q0
    IN  AddToFlt(s, q, negative)

\* the occurrences of one repeatable flag, in command-line order
Occ(kind, toks, negative) ==
    [i \in 1..Len(toks) |-> [kind |-> kind, tok |-> toks[i], negative |-> negative]]

\* a single-valued flag is applied only when it is not the empty string
OccOne(kind, tok, negative) ==
    IF tok # <<>> THEN <<[kind |-> kind, tok |-> tok, negative |-> negative]>> ELSE <<>>

\* the flag occurrences in the order Filter walks them
FilterOccurrences(cfg) ==
    Occ("exists", cfg.pExists, FALSE) \o Occ("exists", cfg.nExists, TRUE)
    \o Occ("term", cfg.pTerm, FALSE) \o Occ("term", cfg.nTerm, TRUE)
    \o Occ("match", cfg.pMatch, FALSE) \o Occ("match", cfg.nMatch, TRUE)
    \o Occ("prefix", cfg.pPrefix, FALSE) \o Occ("prefix", cfg.nPrefix, TRUE)
    \o Occ("regexp", cfg.regexp, FALSE)
    \o OccOne("range", cfg.pRange, FALSE) \o OccOne("range", cfg.nRange, TRUE)

\* one iteration of Filter's loops; f[0] on the empty slice panics
ApplyFilter(s, o) ==
    IF o.kind = "exists"
    THEN [panic |-> "", s |-> AddExistsFilter(s, o.tok, o.negative)]
    ELSE LET f == Fields(o.tok)
         IN  IF f = <<>> THEN [panic |-> "index out of range", s |-> s]
             ELSE [panic |-> "",
                   s |-> CASE o.kind = "term" -> AddTermFilter(s, f[1], f[2], o.negative)
                           [] o.kind = "match" -> AddMatchFilter(s, f[1], f[2], o.negative)
                           [] o.kind = "prefix" -> AddPrefixFilter(s, f[1], f[2], o.negative)
                           [] o.kind = "regexp" -> AddRegexFilter(s, f[1], f[2])
                           [] o.kind = "range" -> AddRangeFilter(s, f[1], f[2], o.negative)]

RECURSIVE FilterFrom(_, _)
FilterFrom(s, occs) ==
    IF occs = <<>> THEN [panic |-> "", s |-> s]
    ELSE LET r == ApplyFilter(s, Head(occs))
         IN  IF r.panic # "" THEN r ELSE FilterFrom(r.s, Tail(occs))

\* Filter(s)
Filter(s, cfg) == FilterFrom(s, FilterOccurrences(cfg))

\* Query(s)
Query(s, cfg) == AddQueryString(s, cfg.query)

----------------------------------------------------------------------------
(* Aggregation builder *)

RECURSIVE Itoa(_)
Itoa(n) == IF n < 10 THEN <<Digits[n + 1]>> ELSE Itoa(n \div 10) \o <<Digits[(n % 10) + 1]>>

\* strconv.FormatFloat(p, 'f', 1, 64) for a non-negative p given in
\* hundredths: rounded to the nearest tenth, an exact tie (x.25, x.75) to
\* the even tenth.
FormatFloat(h) ==
    LET t0 == h \div 10
        r == h % 10
        t == IF r > 5 \/ (r = 5 /\ t0 % 2 = 1) THEN t0 + 1 ELSE t0
    IN  Itoa(t \div 10) \o <<".">> \o <<Digits[(t % 10) + 1]>>

ValueKinds == {"min", "max", "avg", "sum"}
PercentileKinds == {"pct", "pctr"}
ExtendedKinds == {"stdev", "stdevmin", "stdevmax", "var"}
Kinds == ValueKinds \cup PercentileKinds \cup ExtendedKinds

\* params[0].(float64): the zero value when the interface holds no float64
AsFloat(param) == IF param.nil THEN 0 ELSE param.v

\* AddSubAggregation that names the sub-aggregation by its kind alone
AddSubAggregationKindName(s, field, name, param) ==
    IF name \notin Kinds THEN s
    ELSE [s EXCEPT !.aggName = <<name, "_", field>>,
                   !.agg.subAggs = Append(@, [name |-> <<name>>, type |-> name,
                                              field |-> field, arg |-> NoBound])]

\* s.AddSubAggregation(field, name, params...)
AddSubAggregation(s, field, name, param) ==
    IF name \notin Kinds THEN s
    ELSE LET aggName == <<name, "_", field>>
             type == CASE name \in ValueKinds -> name
                       [] name = "pct" -> "percentiles"
                       [] name = "pctr" -> "percentile_ranks"
                       [] name \in ExtendedKinds -> "extended_stats"
             arg == IF name \in PercentileKinds THEN Bound(AsFloat(param)) ELSE NoBound
             sub == [name |-> aggName, type |-> type, field |-> field, arg |-> arg]
         IN  [s EXCEPT !.pctVal = IF name \in PercentileKinds THEN FormatFloat(AsFloat(param)) ELSE @,
                       !.aggName = aggName,
                       !.agg.subAggs = Append(@, sub)]

\* Aggregate(s): the percentile argument is passed for "pct" only
Aggregate(s, cfg) ==
    AddSubAggregation(s, cfg.key, cfg.agg,
                      IF cfg.agg = "pct" THEN [nil |-> FALSE, v |-> cfg.pct]
                      ELSE [nil |-> TRUE, v |-> 0])

----------------------------------------------------------------------------
(* Search response and result extraction *)

NoErr == [type |-> "nil", msg |-> ""]
NoSearchResultError(msg) == [type |-> "NoSearchResultError", msg |-> msg]
NoAggrValuesError(msg) == [type |-> "NoAggrValuesError", msg |-> msg]

NoRes == [nil |-> TRUE]

\* the metrics of bucket b stored under name: Min/Max/.../ExtendedStats(name)
Lookup(b, name) == {m \in b : m.name = name}

\* s.Result() from its switch on: the metric stored under s.aggName in the
\* first bucket.  A metric m carries the statistic the kind reads (m.null
\* when the JSON value is null, so the *float64 is nil); for the percentile
\* kinds m.key is the key of the Values map entry; for the extended kinds
\* m.ext holds the statistics of the extended_stats answer.
ResultOfBucket(s, cfg) ==
    LET Fail(e) == [val |-> 0, err |-> e, panic |-> ""]
        Ok(v) == [val |-> v, err |-> NoErr, panic |-> ""]
        found == Lookup(s.res.buckets[1], s.aggName)
    IN  IF cfg.agg \notin Kinds THEN Fail(NoAggrValuesError(cfg.agg))
        ELSE IF found = {} THEN Fail(NoAggrValuesError(cfg.agg))
        ELSE LET stat == CHOOSE m \in found : TRUE
             IN  IF cfg.agg \in PercentileKinds
                 THEN IF ~stat.null /\ stat.key = s.pctVal THEN Ok(stat.val) ELSE Ok(0)
                 ELSE IF stat.null
                      THEN [val |-> 0, err |-> NoErr, panic |-> "nil pointer dereference"]
                      ELSE CASE cfg.agg = "stdev" -> Ok(stat.ext.StdDeviation)
                             [] cfg.agg = "stdevmin" -> Ok(stat.ext.Min)
                             [] cfg.agg = "stdevmax" -> Ok(stat.ext.Max)
                             [] cfg.agg = "var" -> Ok(stat.ext.Variance)
                             [] OTHER -> Ok(stat.val)

\* s.Result() after the test of TotalHits
ResultOfAggr(s, cfg) ==
    LET Fail(e) == [val |-> 0, err |-> e, panic |-> ""]
    IN  IF ~s.res.aggr THEN Fail(NoSearchResultError("no aggregations"))
        ELSE IF Len(s.res.buckets) = 0 THEN Fail(NoSearchResultError("0 aggregation buckets"))
        ELSE ResultOfBucket(s, cfg)

\* Result without the test of TotalHits: the aggregation is trusted
ResultNoHitsCheck(s, cfg) == ResultOfAggr(s, cfg)

\* s.Result(): the scalar, the error, or the panic of a nil dereference
Result(s, cfg) ==
    IF s.res.TotalHits = 0
    THEN [val |-> 0, err |-> NoSearchResultError("0 hits"), panic |-> ""]
    ELSE ResultOfAggr(s, cfg)

----------------------------------------------------------------------------
(* The check (nagiosplugin.Check) *)

Severities == <<"OK", "WARNING", "CRITICAL", "UNKNOWN">>

\* Status values are ordered OK < WARNING < CRITICAL < UNKNOWN; the exit
\* status of the process is that number.
Code(status) == (CHOOSE i \in 1..4 : Severities[i] = status) - 1

NewCheck == [results |-> <<>>, perfdata |-> <<>>, status |-> "OK"]

\* check.AddResult / AddResultf: append, and raise the final status
AddResult(c, status, message) ==
    [c EXCEPT !.results = Append(@, [status |-> status, message |-> message]),
              !.status = IF Code(@) < Code(status) THEN status ELSE @]

\* check.AddPerfDatum(label, unit, value, min, max, warn, crit)
AddPerfDatum(c, label, val, min, max, warn, crit) ==
    [c EXCEPT !.perfdata = Append(@, [label |-> label, value |-> val, min |-> min,
                                      max |-> max, warn |-> warn, crit |-> crit])]

\* the line fmt.Println(c) prints: status, the messages of the results
\* with that status, and the performance data
CheckLine(c) ==
    [kind |-> "check", status |-> c.status,
     text |-> SelectSeq(c.results, LAMBDA r : r.status = c.status),
     perfdata |-> c.perfdata]

Diag(text) == [kind |-> "diag", text |-> text]

Msg(fmt, val, e, thr) == [fmt |-> fmt, value |-> val, err |-> e, thr |-> thr]

\* a transport error returned by the elastic client
TransportError(e) == [type |-> "transport", msg |-> e]

\* Failed with a message that leaves the error out
FailedWithoutError(c, fmt, e) == AddResult(c, "CRITICAL", Msg(fmt, 0, NoErr, <<>>))

\* main's answer to a failed newSearcher or Search: CRITICAL, with the error
Failed(c, fmt, e) == AddResult(c, "CRITICAL", Msg(fmt, 0, e, <<>>))

\* Recover that records nothing for the panic
RecoverNothing(c, p) == c

\* Finish's recover branch (Exitf): the panic becomes a CRITICAL result
Recover(c, p) ==
    AddResult(c, "CRITICAL", Msg("check panicked: %v", 0, [type |-> "panic", msg |-> p], <<>>))

----------------------------------------------------------------------------
(* Inputs: the command line and the backend's answers *)

ThresholdArgs ==
    { <<>>,                                  \* flag missing
      <<"x">>,                               \* not a range
      <<"1", "5">>, <<"3", "0">>,            \* n     0..n
      <<"1", "0", ":">>,                     \* n:    n..+Inf
      <<"~", ":", "1", "0">>,                \* ~:n   -Inf..n
      <<"1", "6", ":", "3", "0">>,           \* n:m
      <<"@", "1", "6", ":", "3", "0">>,      \* @n:m
      <<"3", "0", ":", "1", "6">> }          \* m < n

KeyArgs == {"", "dur"}
IndexArgs == {"", "*", "logstash-*"}
NullCodes == 0..MaxNullCode
AggArgs == Kinds \cup {"median"}
DefaultPct == 9900
PctArgs == {DefaultPct, 9995}
Values == {-1, 0, 15, 16, 20, 30, 31, 35}
TransportErrors == {"connection refused", "no such index"}

NoFilters ==
    [pExists |-> <<>>, nExists |-> <<>>, pTerm |-> <<>>, nTerm |-> <<>>,
     pMatch |-> <<>>, nMatch |-> <<>>, pPrefix |-> <<>>, nPrefix |-> <<>>,
     regexp |-> <<>>, pRange |-> <<>>, nRange |-> <<>>]

FilterArgs ==
    { NoFilters,
      [NoFilters EXCEPT !.pTerm = << <<"a", ":", "b">> >>],
      [NoFilters EXCEPT !.nTerm = << <<"a", "b">> >>] }

\* the flag values of one command line
MkArgs(k, i, w, c, n, a, p, f) ==
    [key |-> k, index |-> i, warningThreshold |-> w, criticalThreshold |-> c,
     nullCode |-> n, agg |-> a, pct |-> p, query |-> "*", desc |-> "",
     pExists |-> f.pExists, nExists |-> f.nExists, pTerm |-> f.pTerm, nTerm |-> f.nTerm,
     pMatch |-> f.pMatch, nMatch |-> f.nMatch, pPrefix |-> f.pPrefix, nPrefix |-> f.nPrefix,
     regexp |-> f.regexp, pRange |-> f.pRange, nRange |-> f.nRange]

\* the percentile flag is varied for the percentile kinds only
PctArgsFor(a) == IF a \in PercentileKinds THEN PctArgs ELSE {DefaultPct}

\* the percentile key of an Elasticsearch response for the argument h
\* (hundredths): the shortest decimal form with at least one decimal
EsKey(h) ==
    Itoa(h \div 100) \o <<".">> \o
    (IF h % 10 = 0 THEN <<Digits[((h % 100) \div 10) + 1]>>
     ELSE <<Digits[((h % 100) \div 10) + 1], Digits[(h % 10) + 1]>>)

\* the statistics of an extended_stats answer; StdLower and StdUpper are its
\* std_deviation_bounds (Avg -/+ 2 * StdDeviation)
ExtStat(min, max, avg, variance, dev) ==
    [Min |-> min, Max |-> max, Avg |-> avg, Variance |-> variance, StdDeviation |-> dev,
     StdLower |-> avg - 2 * dev, StdUpper |-> avg + 2 * dev]

NoExt == ExtStat(0, 0, 0, 0, 0)

\* extended statistics of the samples {16, 16}, {20, 30}, {10, 30}, {15, 35}
ExtStats ==
    { ExtStat(16, 16, 16, 0, 0), ExtStat(20, 30, 25, 25, 5),
      ExtStat(10, 30, 20, 100, 10), ExtStat(15, 35, 25, 100, 10) }

\* the metrics a bucket can carry in answer to the sub-aggregations sent:
\* none, or the requested one with a null or a numeric statistic
BucketsFor(subAggs) ==
    {{}} \cup
    { {[name |-> subAggs[i].name, null |-> nl, val |-> v, ext |-> NoExt,
        key |-> IF subAggs[i].arg.nil THEN <<>> ELSE EsKey(subAggs[i].arg.v)]} :
      i \in {j \in 1..Len(subAggs) : subAggs[j].type # "extended_stats"},
      nl \in {FALSE}, v \in Values }
    \cup
    { {[name |-> subAggs[i].name, null |-> FALSE, val |-> 0, ext |-> e, key |-> <<>>]} :
      i \in {j \in 1..Len(subAggs) : subAggs[j].type = "extended_stats"}, e \in ExtStats }
    \cup
    { {[name |-> subAggs[i].name, null |-> TRUE, val |-> 0, ext |-> NoExt, key |-> <<>>]} :
      i \in 1..Len(subAggs) }

\* the responses the backend can give to the request of searcher s
Responses(s) ==
    { [nil |-> FALSE, TotalHits |-> h, aggr |-> FALSE, buckets |-> <<>>] : h \in 0..MaxHits }
    \cup
    { [nil |-> FALSE, TotalHits |-> h, aggr |-> TRUE, buckets |-> <<>>] : h \in 0..MaxHits }
    \cup
    { [nil |-> FALSE, TotalHits |-> h, aggr |-> TRUE, buckets |-> <<b>>] :
      h \in 0..MaxHits, b \in BucketsFor(s.agg.subAggs) }

----------------------------------------------------------------------------
(* The process *)

NoSearcher == [nil |-> TRUE]

Init ==
    /\ pc = "start"
    /\ \E k \in KeyArgs, i \in IndexArgs, w \in ThresholdArgs, c \in ThresholdArgs,
          n \in NullCodes, a \in AggArgs, f \in FilterArgs :
          \E p \in PctArgsFor(a) : config = MkArgs(k, i, w, c, n, a, p, f)
    /\ warnRange = NoRange
    /\ critRange = NoRange
    /\ searcher = NoSearcher
    /\ check = NewCheck
    /\ stdout = <<>>
    /\ exitCode = -1
    /\ panicVal = ""
    /\ err = NoErr
    /\ value = 0
    /\ sent = <<>>
    /\ calls = <<>>

\* init(): validate the parsed flags; os.Exit(1) when any is invalid
Startup ==
    /\ pc = "start"
    /\ LET w == validateTreshold(config.warningThreshold, "-w")
           c == validateTreshold(config.criticalThreshold, "-c")
           diags == (IF config.key = "" THEN <<Diag("Missing mandatory argument (-k)")>> ELSE <<>>)
                    \o (IF w.err # "" THEN <<Diag(w.err)>> ELSE <<>>)
                    \o (IF c.err # "" THEN <<Diag(c.err)>> ELSE <<>>)
                    \o (IF config.index \in {"", "*"} THEN <<Diag("Invalid ES index")>> ELSE <<>>)
           argsInvalid == diags # <<>>
       IN  /\ warnRange' = w.rng
           /\ critRange' = c.rng
           /\ stdout' = stdout \o diags
           /\ IF argsInvalid
              THEN /\ pc' = "exited"
                   /\ exitCode' = 1
                   /\ config' = config
              ELSE /\ pc' = "main"
                   /\ exitCode' = exitCode
                   /\ config' = IF config.desc = "" THEN [config EXCEPT !.desc = config.key]
                                ELSE config
    /\ calls' = Append(calls, "init")
    /\ UNCHANGED <<searcher, check, panicVal, err, value, sent>>

\* newSearcher, once the client exists: the date range aggregation on
\* @timestamp, an empty filter conjunction and an empty query
newSearcher(idx) ==
    [nil |-> FALSE, idx |-> idx, agg |-> [field |-> "@timestamp", subAggs |-> <<>>],
     aggName |-> <<>>, pctVal |-> <<>>, qry |-> NewBoolQuery, flt |-> NewBoolQuery,
     res |-> NoRes]

\* main, up to newSearcher: the client is created or the check is CRITICAL
NewSearcher ==
    /\ pc = "main"
    /\ calls' = Append(calls, "newSearcher")
    /\ \/ /\ searcher' = newSearcher(config.index)
          /\ pc' = "connected"
          /\ err' = NoErr
          /\ UNCHANGED check
       \/ \E e \in TransportErrors :
             /\ check' = Failed(check, "Failed to connect to %v: %v", TransportError(e))
             /\ pc' = "returned"
             /\ err' = TransportError(e)
             /\ UNCHANGED searcher
    /\ UNCHANGED <<config, warnRange, critRange, stdout, exitCode, panicVal, value, sent>>

\* main: Query(searcher); Filter(searcher); Aggregate(searcher)
Build ==
    /\ pc = "connected"
    /\ LET f == Filter(Query(searcher, config), config)
       IN  IF f.panic # ""
           THEN /\ searcher' = f.s
                /\ panicVal' = f.panic
                /\ pc' = "panicking"
                /\ calls' = calls \o <<"Query", "Filter">>
           ELSE /\ searcher' = Aggregate(f.s, config)
                /\ panicVal' = panicVal
                /\ pc' = "built"
                /\ calls' = calls \o <<"Query", "Filter", "Aggregate">>
    /\ UNCHANGED <<config, warnRange, critRange, check, stdout, exitCode, err, value, sent>>

\* the request s.Search() builds: s.qry.Filter(s.flt) attaches the filter
\* conjunction to the scored query, the range aggregation goes under "aggr"
SearchRequest(s) ==
    [index |-> s.idx,
     query |-> [s.qry EXCEPT !.filter = Append(@, s.flt)],
     aggName |-> "aggr",
     agg |-> s.agg]

\* Search whose error main does not test: Result() is reached either way
SearchIgnoringError ==
    /\ pc = "built"
    /\ calls' = Append(calls, "Search")
    /\ sent' = Append(sent, SearchRequest(searcher))
    /\ \E r \in Responses(searcher) \cup {[nil |-> TRUE, TotalHits |-> 0, aggr |-> FALSE,
                                            buckets |-> <<>>]} :
          searcher' = [searcher EXCEPT !.qry = SearchRequest(searcher).query, !.res = r]
    /\ pc' = "searched"
    /\ err' = NoErr
    /\ UNCHANGED <<config, warnRange, critRange, check, stdout, exitCode, panicVal, value>>

\* main: searcher.Search(), one request, answered or failed
Search ==
    /\ pc = "built"
    /\ calls' = Append(calls, "Search")
    /\ sent' = Append(sent, SearchRequest(searcher))
    /\ \/ \E r \in Responses(searcher) :
             /\ searcher' = [searcher EXCEPT !.qry = SearchRequest(searcher).query, !.res = r]
             /\ pc' = "searched"
             /\ err' = NoErr
             /\ UNCHANGED check
       \/ \E e \in TransportErrors :
             /\ check' = Failed(check, "Failed to execute search at %v, index %v: %v",
                                TransportError(e))
             /\ pc' = "returned"
             /\ err' = TransportError(e)
             /\ searcher' = [searcher EXCEPT !.qry = SearchRequest(searcher).query]
    /\ UNCHANGED <<config, warnRange, critRange, stdout, exitCode, panicVal, value>>

\* config.floatWarn / config.floatCrit: ParseFloat of the raw flag, or panic
floatOf(threshold) ==
    LET f == ParseFloat(threshold)
    IN  [val |-> f.val, panic |-> IF f.ok THEN "" ELSE "strconv.ParseFloat: invalid syntax"]

\* Classify with the warning range checked first
ClassifyWarnFirst(crit, warn, val) ==
    IF RangeCheck(warn, val) THEN "WARNING"
    ELSE IF RangeCheck(crit, val) THEN "CRITICAL"
    ELSE "OK"

\* main's final switch: the critical range is checked before the warning one
Classify(crit, warn, val) ==
    IF RangeCheck(crit, val) THEN "CRITICAL"
    ELSE IF RangeCheck(warn, val) THEN "WARNING"
    ELSE "OK"

\* the switch on *config.nullCode
NullStatus(nullCode) ==
    CASE nullCode = 0 -> "OK"
      [] nullCode = 1 -> "WARNING"
      [] nullCode = 2 -> "CRITICAL"
      [] OTHER -> "UNKNOWN"

\* main, from searcher.Result() to the end: the performance datum, then the
\* fallback status when extraction failed, else the classification
HandleResult ==
    /\ pc = "searched"
    /\ LET r == Result(searcher, config)
           fw == floatOf(config.warningThreshold)
           fc == floatOf(config.criticalThreshold)
           withPerf == AddPerfDatum(check, config.key, r.val, Fin(0), PosInf,
                                    Fin(fw.val), Fin(fc.val))
           status == Classify(critRange, warnRange, r.val)
           Panic(p, cs) == [panic |-> p, check |-> check, calls |-> cs]
           Return(c, cs) == [panic |-> "", check |-> c, calls |-> cs]
           out ==
               IF r.panic # "" THEN Panic(r.panic, <<"Result">>)
               ELSE IF fw.panic # "" THEN Panic(fw.panic, <<"Result", "floatWarn">>)
               ELSE IF fc.panic # "" THEN Panic(fc.panic, <<"Result", "floatWarn", "floatCrit">>)
               ELSE IF r.err # NoErr
               THEN Return(AddResult(withPerf, NullStatus(config.nullCode),
                                     Msg("%s %f%s (%s)", r.val, r.err, <<>>)),
                           <<"Result", "floatWarn", "floatCrit">>)
               ELSE Return(AddResult(withPerf, status,
                                     Msg(IF status = "OK" THEN "%s %f%s" ELSE "%s %f%s > %s",
                                         r.val, NoErr,
                                         CASE status = "CRITICAL" -> config.criticalThreshold
                                           [] status = "WARNING" -> config.warningThreshold
                                           [] OTHER -> <<>>)),
                           <<"Result", "floatWarn", "floatCrit", "critRange.Check">>
                           \o (IF status = "CRITICAL" THEN <<>> ELSE <<"warnRange.Check">>))
       IN  /\ err' = (IF r.panic # "" THEN err ELSE r.err)
           /\ value' = (IF r.panic # "" THEN value ELSE r.val)
           /\ panicVal' = out.panic
           /\ pc' = (IF out.panic # "" THEN "panicking" ELSE "returned")
           /\ check' = out.check
           /\ calls' = calls \o out.calls
    /\ UNCHANGED <<config, warnRange, critRange, searcher, stdout, exitCode, sent>>

\* the deferred check.Finish(): a panic is recovered into a CRITICAL result
\* (Exitf), a check without results becomes UNKNOWN; the line is printed
\* and the process exits with the status
Finish ==
    /\ pc \in {"returned", "panicking"}
    /\ LET c == IF pc = "panicking"
                THEN Recover(check, panicVal)
                ELSE IF Len(check.results) = 0
                THEN AddResult(check, "UNKNOWN", Msg("no check result specified", 0, NoErr, <<>>))
                ELSE check
       IN  /\ check' = c
           /\ stdout' = Append(stdout, CheckLine(c))
           /\ exitCode' = IF pc = "panicking" THEN Code("CRITICAL") ELSE Code(c.status)
    /\ panicVal' = ""
    /\ pc' = "exited"
    /\ calls' = Append(calls, "Finish")
    /\ UNCHANGED <<config, warnRange, critRange, searcher, err, value, sent>>

Next ==
    \/ Startup
    \/ NewSearcher
    \/ Build
    \/ Search
    \/ HandleResult
    \/ Finish

Spec == Init /\ [][Next]_vars

\* the process runs to its exit: no step is skipped for ever
FairSpec == Spec /\ WF_vars(Next)

----------------------------------------------------------------------------
(* The earlier variant of the command: term and range filters only, all     *)
(* clauses appended to the one query s.qry                                  *)

Separators == {":", "="}

\* fields(in): strings.FieldsFunc, the maximal runs of characters that
\* are neither ':' nor '='
RECURSIVE fields(_)
fields(in) ==
    IF in = <<>> THEN <<>>
    ELSE IF in[1] \in Separators THEN fields(Tail(in))
    ELSE LET n == PrefixLen(in, {in[i] : i \in 1..Len(in)} \ Separators)
         IN  <<SubSeq(in, 1, n)>> \o fields(Drop(in, n))

\* the earlier newSearcher: no filter conjunction
newSearcherLegacy(idx) ==
    [nil |-> FALSE, idx |-> idx, agg |-> [field |-> "@timestamp", subAggs |-> <<>>],
     aggName |-> <<>>, pctVal |-> <<>>, qry |-> NewBoolQuery, res |-> NoRes]

\* the shared tail of the earlier Add...Filter methods
AddToQry(s, qry, negative) ==
    IF negative
    THEN [s EXCEPT !.qry.mustNot = Append(@, qry)]
    ELSE [s EXCEPT !.qry.must = Append(@, qry)]

AddTermFilterLegacy(s, field, val, negative) ==
    AddToQry(s, [type |-> "term", field |-> field, value |-> val], negative)

\* the earlier AddRangeFilter: the query is on "range_" + field, and the
\* switch tests ">" before ">=" and "<" before "<="
AddRangeFilterLegacy(s, field, rng, negative) ==
    LET q0 == NewRangeQuery(<<"range_">> \o field)
        q == IF HasPrefix(rng, <<">">>)
                 THEN [q0 EXCEPT !.from = Bound(Drop(rng, 1)), !.includeLower = FALSE]
             ELSE IF HasPrefix(rng, <<">", "=">>)
                 THEN [q0 EXCEPT !.from = Bound(Drop(rng, 2)), !.includeLower = TRUE]
             ELSE IF HasPrefix(rng, <<"<">>)
                 THEN [q0 EXCEPT !.to = Bound(Drop(rng, 1)), !.includeUpper = FALSE]
             ELSE IF HasPrefix(rng, <<"<", "=">>)
                 THEN [q0 EXCEPT !.to = Bound(Drop(rng, 2)), !.includeUpper = TRUE]
             ELSE IF Contains(rng, TO)
                 THEN LET r == Split(rng, TO)
                      IN  [q0 EXCEPT !.from = Bound(r[1]), !.to = Bound(r[2])]
             ELSE q0
    IN  AddToQry(s, q, negative)

\* the tokens filter() parses, in its order; for the not-range flag it
\* parses the value of the range flag
filterOccurrences(cfg) ==
    Occ("term", cfg.pTerm, FALSE) \o Occ("term", cfg.nTerm, TRUE)
    \o OccOne("range", cfg.pRange, FALSE)
    \o (IF cfg.nRange # <<>>
        THEN <<[kind |-> "range", tok |-> cfg.pRange, negative |-> TRUE]>> ELSE <<>>)

\* one step of filter(); f[0] or f[1] beyond the slice panics
applyFilter(s, o) ==
    LET f == fields(o.tok)
    IN  IF Len(f) < 2 THEN [panic |-> "index out of range", s |-> s]
        ELSE [panic |-> "",
              s |-> IF o.kind = "term" THEN AddTermFilterLegacy(s, f[1], f[2], o.negative)
                    ELSE AddRangeFilterLegacy(s, f[1], f[2], o.negative)]

RECURSIVE filterFrom(_, _)
filterFrom(s, occs) ==
    IF occs = <<>> THEN [panic |-> "", s |-> s]
    ELSE LET r == applyFilter(s, Head(occs))
         IN  IF r.panic # "" THEN r ELSE filterFrom(r.s, Tail(occs))

\* filter(s)
filter(s, cfg) == filterFrom(s, filterOccurrences(cfg))

\* aggregate(s)
aggregate(s, cfg) ==
    AddSubAggregation(s, cfg.key, cfg.agg,
                      IF cfg.agg = "pct" THEN [nil |-> FALSE, v |-> cfg.pct]
                      ELSE [nil |-> TRUE, v |-> 0])

\* the request of the earlier Search(): the query alone, no filter
SearchRequestLegacy(s) ==
    [index |-> s.idx, query |-> s.qry, aggName |-> "aggr", agg |-> s.agg]

\* values of --range and --not-range
LegacyRangeArgs ==
    { <<>>,
      <<"c", ":", ">", "4">>,
      <<"c", "=", "<", "5">>,
      <<"s", ":", "4", " ", "T", "O", " ", "5">>,
      <<"s", ":", ">", "=", "4">>,
      <<"c">> }

\* values of the repeatable --term and --not-term
LegacyTermArgs ==
    { <<>>,
      << <<"a", ":", "b">> >>,
      << <<"a", ":", "b", ":", "c">>, <<"x", "=", "y">> >> }

LegacyNotTermArgs == { <<>>, << <<"a", "=", "b">> >> }

\* the state init() leaves when every flag is valid: thresholds parsed
LegacyInit ==
    /\ pc = "main"
    /\ \E t \in LegacyTermArgs, nt \in LegacyNotTermArgs,
          r \in LegacyRangeArgs, nr \in LegacyRangeArgs :
          config = [MkArgs("dur", "logstash-*", <<"1", "5">>, <<"3", "0">>, 2, "max", DefaultPct,
                           [NoFilters EXCEPT !.pTerm = t, !.nTerm = nt,
                                             !.pRange = r, !.nRange = nr])
                    EXCEPT !.desc = "dur"]
    /\ warnRange = ParseRange(<<"1", "5">>).rng
    /\ critRange = ParseRange(<<"3", "0">>).rng
    /\ searcher = NoSearcher
    /\ check = NewCheck
    /\ stdout = <<>>
    /\ exitCode = -1
    /\ panicVal = ""
    /\ err = NoErr
    /\ value = 0
    /\ sent = <<>>
    /\ calls = <<"init">>

\* the earlier main, up to newSearcher
LegacyNewSearcher ==
    /\ pc = "main"
    /\ calls' = Append(calls, "newSearcher")
    /\ \/ /\ searcher' = newSearcherLegacy(config.index)
          /\ pc' = "connected"
          /\ err' = NoErr
          /\ UNCHANGED check
       \/ \E e \in TransportErrors :
             /\ check' = Failed(check, "Failed to connect to %v: %v", TransportError(e))
             /\ pc' = "returned"
             /\ err' = TransportError(e)
             /\ UNCHANGED searcher
    /\ UNCHANGED <<config, warnRange, critRange, stdout, exitCode, panicVal, value, sent>>

\* the earlier main: filter(searcher); aggregate(searcher)
LegacyBuild ==
    /\ pc = "connected"
    /\ LET f == filter(searcher, config)
       IN  IF f.panic # ""
           THEN /\ searcher' = f.s
                /\ panicVal' = f.panic
                /\ pc' = "panicking"
                /\ calls' = calls \o <<"filter">>
           ELSE /\ searcher' = aggregate(f.s, config)
                /\ panicVal' = panicVal
                /\ pc' = "built"
                /\ calls' = calls \o <<"filter", "aggregate">>
    /\ UNCHANGED <<config, warnRange, critRange, check, stdout, exitCode, err, value, sent>>

\* the earlier main: searcher.Search()
LegacySearch ==
    /\ pc = "built"
    /\ calls' = Append(calls, "Search")
    /\ sent' = Append(sent, SearchRequestLegacy(searcher))
    /\ \/ \E r \in Responses(searcher) :
             /\ searcher' = [searcher EXCEPT !.res = r]
             /\ pc' = "searched"
             /\ err' = NoErr
             /\ UNCHANGED check
       \/ \E e \in TransportErrors :
             /\ check' = Failed(check, "Failed to execute search at %v, index %v: %v",
                                TransportError(e))
             /\ pc' = "returned"
             /\ err' = TransportError(e)
             /\ UNCHANGED searcher
    /\ UNCHANGED <<config, warnRange, critRange, stdout, exitCode, panicVal, value>>

\* the rest of the earlier main (Result, the perf datum, the final switch,
\* the deferred Finish) is the code of the current one
LegacyNext ==
    \/ LegacyNewSearcher
    \/ LegacyBuild
    \/ LegacySearch
    \/ HandleResult
    \/ Finish

LegacySpec == LegacyInit /\ [][LegacyNext]_vars

----------------------------------------------------------------------------
(* AddRangeFilter of both variants, applied to range expressions *)

ExprChars == {">", "<", "=", "4"}

\* the range expressions: every string of operator characters and digits
\* up to MaxExprLen, and expressions with " TO "
RangeExprs ==
    UNION {[1..n -> ExprChars] : n \in 0..MaxExprLen}
    \cup { <<"4">> \o TO \o <<"5">>, <<">", "4">> \o TO \o <<"5">>,
           <<"<", "=", "4">> \o TO \o <<"5">> }

\* a fresh searcher of either variant and the arguments of one call
RangeInit ==
    /\ pc = "range"
    /\ \E v \in {"current", "legacy"}, r \in RangeExprs, n \in BOOLEAN :
          /\ config = [variant |-> v, field |-> <<"c">>, rng |-> r, negative |-> n]
          /\ searcher = IF v = "current" THEN newSearcher("logstash-*")
                        ELSE newSearcherLegacy("logstash-*")
    /\ warnRange = NoRange
    /\ critRange = NoRange
    /\ check = NewCheck
    /\ stdout = <<>>
    /\ exitCode = -1
    /\ panicVal = ""
    /\ err = NoErr
    /\ value = 0
    /\ sent = <<>>
    /\ calls = <<>>

\* s.AddRangeFilter(field, rng, negative) of the current variant
RangeCurrent ==
    /\ pc = "range"
    /\ config.variant = "current"
    /\ searcher' = AddRangeFilter(searcher, config.field, config.rng, config.negative)
    /\ pc' = "ranged"
    /\ calls' = Append(calls, "AddRangeFilter")
    /\ UNCHANGED <<config, warnRange, critRange, check, stdout, exitCode, panicVal, err,
                   value, sent>>

\* s.AddRangeFilter(field, rng, negative) of the earlier variant
RangeLegacy ==
    /\ pc = "range"
    /\ config.variant = "legacy"
    /\ searcher' = AddRangeFilterLegacy(searcher, config.field, config.rng, config.negative)
    /\ pc' = "ranged"
    /\ calls' = Append(calls, "AddRangeFilter")
    /\ UNCHANGED <<config, warnRange, critRange, check, stdout, exitCode, panicVal, err,
                   value, sent>>

RangeNext == RangeCurrent \/ RangeLegacy

RangeSpec == RangeInit /\ [][RangeNext]_vars

----------------------------------------------------------------------------
(* The current command on filter flags of every kind *)

TokenChars == {"a", ":", "=", " ", "\n"}

\* every token over TokenChars up to MaxTokLen: well-formed ones, ones with
\* a second separator, with white space, with a newline, and malformed ones
Tokens == UNION {[1..n -> TokenChars] : n \in 0..MaxTokLen}

CodeField == <<"c", "o", "d", "e">>
BoundTexts == {<<"4">>, <<"5">>, <<"4", "0", "0">>, <<"5", "9", "9">>}

\* range expressions of the form X TO Y
ToExprs == {x \o TO \o y : x \in BoundTexts, y \in BoundTexts}

\* values of --range and --not-range on the field code
RangeTokens ==
    {CodeField \o <<sep>> \o e : sep \in Separators, e \in RangeExprs \cup ToExprs}

\* one flag of every kind, and all of them together
AllFilters ==
    [pExists |-> << <<"f">> >>, nExists |-> << <<"g">> >>,
     pTerm |-> << <<"a", ":", "b">>, <<"t", "=", "u">> >>, nTerm |-> << <<"a", "=", "c">> >>,
     pMatch |-> << <<"m", ":", "x">> >>, nMatch |-> << <<"m", ":", "y">> >>,
     pPrefix |-> << <<"p", ":", "x">> >>, nPrefix |-> << <<"p", ":", "y">> >>,
     regexp |-> << <<"r", ":", ".", "*">> >>,
     pRange |-> CodeField \o <<":">> \o <<"4", "0", "0">> \o TO \o <<"5", "9", "9">>,
     nRange |-> <<"s", ":", ">", "4">>]

FlagNames == DOMAIN AllFilters

\* the filter flags of the command lines: one --term token, one --range or
\* --not-range token, one flag of one kind, or all of them
BuilderFilterArgs ==
    {[NoFilters EXCEPT !.pTerm = <<t>>] : t \in Tokens}
    \cup {[NoFilters EXCEPT !.pRange = t] : t \in RangeTokens}
    \cup {[NoFilters EXCEPT !.nRange = t] : t \in RangeTokens}
    \cup {[k \in FlagNames |-> IF k = only THEN AllFilters[k] ELSE NoFilters[k]] :
          only \in FlagNames}
    \cup {AllFilters}

QueryArgs == {"*", "status:500"}

\* command lines with valid thresholds, key and index
BuilderInit ==
    /\ pc = "start"
    /\ \E f \in BuilderFilterArgs, q \in QueryArgs :
          config = [MkArgs("dur", "logstash-*", <<"1", "5">>, <<"3", "0">>, 2, "max",
                           DefaultPct, f)
                    EXCEPT !.query = q]
    /\ warnRange = NoRange
    /\ critRange = NoRange
    /\ searcher = NoSearcher
    /\ check = NewCheck
    /\ stdout = <<>>
    /\ exitCode = -1
    /\ panicVal = ""
    /\ err = NoErr
    /\ value = 0
    /\ sent = <<>>
    /\ calls = <<>>

BuilderSpec == BuilderInit /\ [][Next]_vars

----------------------------------------------------------------------------
(* The single-aggregation commands: max of one key over the last minutes.   *)
(* "cmd" is cmd/check_es_aggregation/main.go, "root" is main.go.            *)

Commands == {"cmd", "root"}

\* the flags of one command line; main.go has no --index-pattern and
\* searches the logstash index of the day
SingleInit ==
    /\ pc = "start"
    /\ \E v \in Commands, w \in ThresholdArgs, c \in ThresholdArgs, i \in IndexArgs :
          /\ v = "root" => i = "logstash-*"
          /\ config = [variant |-> v, warningThreshold |-> w, criticalThreshold |-> c,
                       index |-> i, key |-> "dur", query |-> "*", desc |-> "dur"]
    /\ warnRange = NoRange
    /\ critRange = NoRange
    /\ searcher = NoSearcher
    /\ check = NewCheck
    /\ stdout = <<>>
    /\ exitCode = -1
    /\ panicVal = ""
    /\ err = NoErr
    /\ value = 0
    /\ sent = <<>>
    /\ calls = <<>>

\* main, up to the client: both thresholds must parse as floats, and in
\* cmd the index must be neither empty nor "*"; otherwise panic
SingleStart ==
    /\ pc = "start"
    /\ LET fw == floatOf(config.warningThreshold)
           fc == floatOf(config.criticalThreshold)
           p == IF fw.panic # "" THEN fw.panic
                ELSE IF fc.panic # "" THEN fc.panic
                ELSE IF config.variant = "cmd" /\ config.index \in {"", "*"}
                THEN "Invalid ES index"
                ELSE ""
       IN  /\ panicVal' = p
           /\ pc' = IF p # "" THEN "panicking" ELSE "main"
    /\ calls' = Append(calls, "ParseFloat")
    /\ UNCHANGED <<config, warnRange, critRange, searcher, check, stdout, exitCode, err,
                   value, sent>>

\* the date range aggregation with the one max sub-aggregation "avgDuration"
SingleSearcher(cfg) ==
    [nil |-> FALSE, idx |-> cfg.index,
     agg |-> [field |-> "@timestamp",
              subAggs |-> <<[name |-> "avgDuration", type |-> "max", field |-> cfg.key,
                             arg |-> NoBound]>>],
     aggName |-> "avgDuration", res |-> NoRes]

\* elastic.NewClient: a failure is a CRITICAL result in cmd, a panic in root
SingleConnect ==
    /\ pc = "main"
    /\ calls' = Append(calls, "NewClient")
    /\ \/ /\ searcher' = SingleSearcher(config)
          /\ pc' = "connected"
          /\ UNCHANGED <<check, err, panicVal>>
       \/ \E e \in TransportErrors :
             /\ err' = TransportError(e)
             /\ IF config.variant = "cmd"
                THEN /\ check' = Failed(check, "Failed to connect to %v: %v", TransportError(e))
                     /\ pc' = "returned"
                     /\ UNCHANGED panicVal
                ELSE /\ panicVal' = e
                     /\ pc' = "panicking"
                     /\ UNCHANGED check
             /\ UNCHANGED searcher
    /\ UNCHANGED <<config, warnRange, critRange, stdout, exitCode, value, sent>>

\* the one search: a failure is a CRITICAL result in cmd, a panic in root
SingleSearch ==
    /\ pc = "connected"
    /\ calls' = Append(calls, "Search")
    /\ sent' = Append(sent, [index |-> searcher.idx,
                             query |-> [type |-> "query_string", query |-> config.query],
                             aggName |-> "timeRange", agg |-> searcher.agg])
    /\ \/ \E r \in Responses(searcher) :
             /\ searcher' = [searcher EXCEPT !.res = r]
             /\ pc' = "searched"
             /\ UNCHANGED <<check, err, panicVal>>
       \/ \E e \in TransportErrors :
             /\ err' = TransportError(e)
             /\ IF config.variant = "cmd"
                THEN /\ check' = Failed(check, "Failed to execute search at %v, index %v: %v",
                                        TransportError(e))
                     /\ pc' = "returned"
                     /\ UNCHANGED panicVal
                ELSE /\ panicVal' = e
                     /\ pc' = "panicking"
                     /\ UNCHANGED check
             /\ UNCHANGED searcher
    /\ UNCHANGED <<config, warnRange, critRange, stdout, exitCode, value>>

\* the max read from the first bucket of "timeRange": cmd answers every
\* missing piece with a CRITICAL result (fail), root dereferences unchecked
SingleResult(variant, res) ==
    LET Ok(v) == [val |-> v, fail |-> "", panic |-> ""]
        Miss(f, p) == IF variant = "cmd" THEN [val |-> 0, fail |-> f, panic |-> ""]
                      ELSE [val |-> 0, fail |-> "", panic |-> p]
    IN  IF ~res.aggr
        THEN Miss("Query has returned no results.", "nil pointer dereference")
        ELSE IF Len(res.buckets) < 1
        THEN Miss("Result has no buckets.", "index out of range")
        ELSE LET found == Lookup(res.buckets[1], "avgDuration")
             IN  IF found = {} \/ \E m \in found : m.null
                 THEN Miss("There is no value for max(avgDuration)", "nil pointer dereference")
                 ELSE Ok((CHOOSE m \in found : TRUE).val)

\* the end of cmd's main: the warning range is checked first and main
\* returns on the first range that triggers
classifyCmd(c, w, cr, v) ==
    IF w.err # "" THEN [check |-> AddResult(c, "UNKNOWN", "error parsing warning range"),
                        panic |-> ""]
    ELSE IF cr.err # "" THEN [check |-> AddResult(c, "UNKNOWN", "error parsing critical range"),
                              panic |-> ""]
    ELSE IF RangeCheck(w.rng, v)
    THEN [check |-> AddResult(c, "WARNING", "above warning threshold"), panic |-> ""]
    ELSE IF RangeCheck(cr.rng, v)
    THEN [check |-> AddResult(c, "CRITICAL", "above critical threshold"), panic |-> ""]
    ELSE [check |-> c, panic |-> ""]

\* the end of root's main: nothing returns early; a range that failed to
\* parse is nil and its Check dereferences it
classifyRoot(c, w, cr, v) ==
    LET c1 == IF w.err # "" THEN AddResult(c, "UNKNOWN", "error parsing warning range") ELSE c
        c2 == IF cr.err # "" THEN AddResult(c1, "UNKNOWN", "error parsing critical range")
              ELSE c1
        c3 == IF RangeCheck(w.rng, v) THEN AddResult(c2, "WARNING", "above warning threshold")
              ELSE c2
        c4 == IF RangeCheck(cr.rng, v) THEN AddResult(c3, "CRITICAL", "above critical threshold")
              ELSE c3
    IN  IF w.err # "" THEN [check |-> c2, panic |-> "nil pointer dereference"]
        ELSE IF cr.err # "" THEN [check |-> c3, panic |-> "nil pointer dereference"]
        ELSE [check |-> c4, panic |-> ""]

\* main, from the response to the end: the value, the OK result, the
\* performance datum, the two ranges and their checks
SingleHandle ==
    /\ pc = "searched"
    /\ LET r == SingleResult(config.variant, searcher.res)
           w == ParseRange(config.warningThreshold)
           cr == ParseRange(config.criticalThreshold)
           ok == AddPerfDatum(AddResult(check, "OK", "OK"), config.key, r.val, Fin(0), PosInf,
                              Fin(floatOf(config.warningThreshold).val),
                              Fin(floatOf(config.criticalThreshold).val))
           out == IF r.panic # "" THEN [check |-> check, panic |-> r.panic]
                  ELSE IF r.fail # ""
                  THEN [check |-> AddResult(check, "CRITICAL", r.fail), panic |-> ""]
                  ELSE IF config.variant = "cmd" THEN classifyCmd(ok, w, cr, r.val)
                  ELSE classifyRoot(ok, w, cr, r.val)
           classified == r.panic = "" /\ r.fail = ""
       IN  /\ check' = out.check
           /\ panicVal' = out.panic
           /\ pc' = IF out.panic # "" THEN "panicking" ELSE "returned"
           /\ value' = r.val
           /\ warnRange' = IF classified THEN w.rng ELSE warnRange
           /\ critRange' = IF classified THEN cr.rng ELSE critRange
           /\ calls' = calls \o IF classified THEN <<"ParseRange", "Check">> ELSE <<>>
    /\ UNCHANGED <<config, searcher, stdout, exitCode, err, sent>>

SingleNext ==
    \/ SingleStart
    \/ SingleConnect
    \/ SingleSearch
    \/ SingleHandle
    \/ Finish

SingleSpec == SingleInit /\ [][SingleNext]_vars

----------------------------------------------------------------------------
(* Properties *)

InCalls(f) == \E i \in DOMAIN calls : calls[i] = f

\* init() printed a diagnostic and stopped the process
StartupFailed == \E i \in DOMAIN stdout : stdout[i].kind = "diag"

\* the run passed startup validation
Passed == pc # "start" /\ ~StartupFailed

\* the check lines printed so far
CheckLines == SelectSeq(stdout, LAMBDA l : l.kind = "check")

\* main ran its final switch on the extracted scalar
Classified == pc \in {"returned", "exited"} /\ InCalls("critRange.Check")

\* Result() was called on the response the searcher holds
ResultCalled == pc \in {"returned", "panicking", "exited"} /\ InCalls("Result")

\* Result() returned a scalar and a nil error
Extracted ==
    /\ ResultCalled
    /\ Result(searcher, config).panic = ""
    /\ Result(searcher, config).err = NoErr

IsNumber(t) == Len(t) > 0 /\ \A i \in 1..Len(t) : IsDigit(t[i])

\* C1: in every run that passes startup validation exactly one check result
\* is recorded and one check line printed, on every path through main: never
\* two while running, exactly one once the process has exited, a panic
\* included.
C1_ExactlyOneResult ==
    /\ Len(check.results) <= 1
    /\ Len(CheckLines) <= 1
    /\ pc = "returned" => Len(check.results) = 1
    /\ (pc = "exited" /\ Passed) =>
          /\ Len(check.results) = 1
          /\ Len(CheckLines) = 1
          /\ CheckLines[1].text = check.results
          /\ exitCode = Code(check.results[1].status)

C1_Witness ==
    /\ pc = "exited"
    /\ Passed
    /\ Len(check.results) = 1
    /\ check.results[1].message.err.type = "panic"
    /\ Len(CheckLines) = 1

\* C2: for an extracted scalar the critical range is checked first: the
\* status is CRITICAL whenever the critical range triggers, also when the
\* warning range triggers too; WARNING exactly when only the warning range
\* triggers; otherwise OK.
C2_CriticalFirst ==
    Classified =>
        LET st == check.results[1].status
            crit == RangeCheck(critRange, value)
            warn == RangeCheck(warnRange, value)
        IN  /\ crit => st = "CRITICAL"
            /\ (~crit /\ warn) => st = "WARNING"
            /\ (~crit /\ ~warn) => st = "OK"
            /\ check.status = st

C2_Witness ==
    /\ Classified
    /\ RangeCheck(critRange, value)
    /\ RangeCheck(warnRange, value)
    /\ check.results[1].status = "CRITICAL"

\* C3 (as claimed): whenever Result() fails, for every accepted pair of
\* thresholds the status is the configured fallback code, the performance
\* datum is recorded with value 0 and the message carries the error.
C3_FallbackForEveryAcceptedPair ==
    (pc = "exited" /\ Passed /\ InCalls("Result") /\ Result(searcher, config).err # NoErr) =>
        /\ Len(check.results) = 1
        /\ check.results[1].status =
              (IF config.nullCode = 0 THEN "OK"
               ELSE IF config.nullCode = 1 THEN "WARNING"
               ELSE IF config.nullCode = 2 THEN "CRITICAL"
               ELSE "UNKNOWN")
        /\ check.results[1].message.err = Result(searcher, config).err
        /\ Len(check.perfdata) = 1
        /\ check.perfdata[1].value = 0

\* C4 (as claimed): a threshold accepted by startup validation never makes
\* the run fail later: no panic comes from converting it, and a run that
\* extracts a scalar always classifies it against the two ranges.
C4_AcceptedThresholdNeverFails ==
    /\ panicVal # "strconv.ParseFloat: invalid syntax"
    /\ (pc \in {"returned", "exited"} /\ Extracted) => InCalls("critRange.Check")

\* C5: an empty key, an empty or unparsable threshold, or an index pattern
\* that is empty or '*' ends the process in init() with exit status 1 and a
\* diagnostic: no client, no search, no check result.
InvalidArgs ==
    \/ config.key = ""
    \/ config.warningThreshold = <<>>
    \/ ParseRange(config.warningThreshold).err # ""
    \/ config.criticalThreshold = <<>>
    \/ ParseRange(config.criticalThreshold).err # ""
    \/ config.index \in {"", "*"}

C5_StartupRejects ==
    /\ (InvalidArgs /\ pc # "start") =>
          /\ pc = "exited"
          /\ exitCode = 1
          /\ StartupFailed
          /\ ~InCalls("newSearcher")
          /\ ~InCalls("Search")
          /\ searcher = NoSearcher
          /\ check.results = <<>>
          /\ CheckLines = <<>>
    /\ StartupFailed => InvalidArgs

C5_Witness ==
    /\ pc = "exited"
    /\ exitCode = 1
    /\ config.index = "*"
    /\ config.key # ""
    /\ ParseRange(config.warningThreshold).err # ""
    /\ Len(stdout) = 2

\* C6: when newSearcher or Search fails the run ends with exactly one
\* result, CRITICAL, whose message embeds the error; Result() is not called
\* and no range is checked.
C6_TransportFailure ==
    (pc \in {"returned", "exited"} /\ err.type = "transport") =>
        /\ Len(check.results) = 1
        /\ check.results[1].status = "CRITICAL"
        /\ check.results[1].message.err = err
        /\ check.perfdata = <<>>
        /\ ~InCalls("Result")
        /\ ~InCalls("critRange.Check")
        /\ ~InCalls("warnRange.Check")
        /\ pc = "exited" =>
              /\ exitCode = Code("CRITICAL")
              /\ Len(CheckLines) = 1
              /\ CheckLines[1].status = "CRITICAL"
              /\ CheckLines[1].text = check.results

C6_Witness ==
    /\ pc = "exited"
    /\ err.type = "transport"
    /\ InCalls("Search")
    /\ exitCode = Code("CRITICAL")

\* C7: with plain-number thresholds w <= c and an extracted scalar v the
\* status is OK iff 0 <= v <= w, WARNING iff v is outside 0..w and inside
\* 0..c, CRITICAL iff v is outside 0..c.
C7_PlainThresholds ==
    (Classified /\ IsNumber(config.warningThreshold) /\ IsNumber(config.criticalThreshold)
       /\ DigitsVal(config.warningThreshold) <= DigitsVal(config.criticalThreshold)) =>
        LET w == DigitsVal(config.warningThreshold)
            c == DigitsVal(config.criticalThreshold)
            st == check.results[1].status
            inW == 0 <= value /\ value <= w
            inC == 0 <= value /\ value <= c
        IN  /\ st = "OK" <=> inW
            /\ st = "WARNING" <=> (~inW /\ inC)
            /\ st = "CRITICAL" <=> ~inC
            /\ pc = "exited" => exitCode = Code(st)

C7_Witness ==
    /\ pc = "exited"
    /\ Classified
    /\ config.warningThreshold = <<"1", "5">>
    /\ config.criticalThreshold = <<"3", "0">>
    /\ value = 20
    /\ check.results[1].status = "WARNING"

C7_WitnessCritical ==
    /\ pc = "exited"
    /\ Classified
    /\ config.warningThreshold = <<"1", "5">>
    /\ config.criticalThreshold = <<"3", "0">>
    /\ value = 35
    /\ check.results[1].status = "CRITICAL"

\* C8 (as claimed): with thresholds of the form n:m or @n:m and an extracted
\* scalar v, the status follows the two ranges: n:m alerts when v is outside
\* n..m, @n:m when v is inside, critical before warning.
IsRangeForm(t) ==
    LET s1 == IF Len(t) > 0 /\ t[1] = "@" THEN Tail(t) ELSE t
        i == IndexOf(s1, ":")
    IN  /\ i > 0
        /\ IsNumber(SubSeq(s1, 1, i))
        /\ IsNumber(SubSeq(s1, i + 2, Len(s1)))
        /\ DigitsVal(SubSeq(s1, 1, i)) <= DigitsVal(SubSeq(s1, i + 2, Len(s1)))

Alerts(t, v) ==
    LET inv == t[1] = "@"
        s1 == IF inv THEN Tail(t) ELSE t
        i == IndexOf(s1, ":")
        inside == DigitsVal(SubSeq(s1, 1, i)) <= v /\ v <= DigitsVal(SubSeq(s1, i + 2, Len(s1)))
    IN  IF inv THEN inside ELSE ~inside

C8_RangeFormClassifies ==
    (pc = "exited" /\ Passed /\ Extracted
       /\ IsRangeForm(config.warningThreshold) /\ IsRangeForm(config.criticalThreshold)) =>
        check.results[1].status =
            (IF Alerts(config.criticalThreshold, value) THEN "CRITICAL"
             ELSE IF Alerts(config.warningThreshold, value) THEN "WARNING"
             ELSE "OK")

\* C9: Result() fails with EmptyResult "0 hits" whenever TotalHits is 0,
\* whatever the response carries; with hits it fails with EmptyResult iff
\* the aggregation is absent or has no bucket; the scalar is then 0.
C9_EmptyResult ==
    ResultCalled =>
        LET res == searcher.res
        IN  /\ res.TotalHits = 0 => (err = NoSearchResultError("0 hits") /\ value = 0)
            /\ res.TotalHits > 0 =>
                  (err.type = "NoSearchResultError" <=> (~res.aggr \/ Len(res.buckets) = 0))
            /\ (res.TotalHits > 0 /\ ~res.aggr) => err = NoSearchResultError("no aggregations")
            /\ (res.TotalHits > 0 /\ res.aggr /\ Len(res.buckets) = 0) =>
                  err = NoSearchResultError("0 aggregation buckets")
            /\ err.type = "NoSearchResultError" => value = 0

C9_Witness ==
    /\ ResultCalled
    /\ searcher.res.TotalHits = 0
    /\ Len(searcher.res.buckets) = 1
    /\ \E m \in searcher.res.buckets[1] : ~m.null /\ m.val = 35 /\ m.name = searcher.aggName
    /\ err = NoSearchResultError("0 hits")
    /\ value = 0

\* C10 (as claimed): with hits and a bucket, a statistic that is absent
\* (metric not found, null statistic, percentile key not in the map) makes
\* Result() fail with MissingMetric: no scalar with a nil error, no crash.
StatAbsent ==
    LET found == Lookup(searcher.res.buckets[1], searcher.aggName)
    IN  \/ found = {}
        \/ \E m \in found : m.null
        \/ config.agg \in PercentileKinds /\ \E m \in found : m.key # searcher.pctVal

C10_MissingMetric ==
    (ResultCalled /\ searcher.res.TotalHits > 0 /\ Len(searcher.res.buckets) = 1 /\ StatAbsent) =>
        /\ err.type = "NoAggrValuesError"
        /\ panicVal # "nil pointer dereference"
        /\ \A i \in DOMAIN check.results : check.results[i].message.err.type # "panic"

----------------------------------------------------------------------------
(* Filter tokens, percentiles and sub-aggregations in the whole run *)

\* some term/match/prefix/regexp/range occurrence of cfg is not of the
\* field<sep>value shape
Malformed(cfg) ==
    \E i \in DOMAIN FilterOccurrences(cfg) :
        LET o == FilterOccurrences(cfg)[i]
        IN  o.kind # "exists" /\ Fields(o.tok) = <<>>

\* C12 (as claimed): a filter token that does not match the field<sep>value
\* shape is a fatal configuration error surfaced before any network call:
\* no client connection is made and no search is sent.
C12_MalformedTokenBeforeNetwork ==
    Malformed(config) =>
        /\ ~InCalls("newSearcher")
        /\ ~InCalls("Search")
        /\ panicVal = ""
        /\ \A i \in DOMAIN check.results : check.results[i].message.err.type # "panic"

\* Aggregate(s) has run on the searcher
Aggregated == InCalls("Aggregate")

\* C15 (as claimed): for pct and for pctr the value of the percentile flag
\* is the argument of the sub-aggregation sent and, formatted to one
\* decimal place, the key Result() looks up.
C15_PercentileFlagIsArgumentAndKey ==
    (Aggregated /\ config.agg \in PercentileKinds) =>
        /\ Len(searcher.agg.subAggs) = 1
        /\ searcher.agg.subAggs[1].arg = Bound(config.pct)
        /\ searcher.pctVal = FormatFloat(config.pct)

\* the percentile metric of the answered search, when it holds a value
\* under the key the backend gives to the percentile flag
PresentPercentiles ==
    IF ResultCalled /\ config.agg = "pct" /\ searcher.res.TotalHits > 0
       /\ searcher.res.aggr /\ Len(searcher.res.buckets) = 1
    THEN {m \in Lookup(searcher.res.buckets[1], searcher.aggName) :
            ~m.null /\ m.key = EsKey(config.pct)}
    ELSE {}

\* C16 (as claimed): for every accepted percentile argument the key Result()
\* looks up for pct is the key under which the response stores that
\* percentile, so a percentile present in the response is the value returned.
C16_PercentileRoundTrip ==
    /\ (Aggregated /\ config.agg = "pct") => searcher.pctVal = EsKey(config.pct)
    /\ \A m \in PresentPercentiles : err = NoErr /\ value = m.val

\* the name '<kind>_<field>' of the metric of cfg
MetricName(cfg) == <<cfg.agg, "_", cfg.key>>

\* C17 (as claimed): every search sent carries exactly one metric
\* sub-aggregation, named '<kind>_<field>', the name Result() looks up; no
\* search is sent with zero sub-aggregations.
C17_ExactlyOneSubAggregation ==
    \A i \in DOMAIN sent :
        /\ Len(sent[i].agg.subAggs) = 1
        /\ sent[i].agg.subAggs[1].name = MetricName(config)
        /\ searcher.aggName = MetricName(config)

\* C17 (amended): for every supported kind the search sent carries exactly
\* one metric sub-aggregation, on the key field, named '<kind>_<field>', the
\* name Result() looks up; for any other value of the aggregation flag the
\* search is sent with no sub-aggregation and Result(), given hits and a
\* bucket, returns NoAggrValuesError.
C17_OneSubAggregationPerSupportedKind ==
    \A i \in DOMAIN sent :
        IF config.agg \in Kinds
        THEN /\ Len(sent[i].agg.subAggs) = 1
             /\ sent[i].agg.subAggs[1].name = MetricName(config)
             /\ sent[i].agg.subAggs[1].field = config.key
             /\ searcher.aggName = MetricName(config)
        ELSE /\ sent[i].agg.subAggs = <<>>
             /\ (ResultCalled /\ searcher.res.TotalHits > 0 /\ searcher.res.aggr
                 /\ Len(searcher.res.buckets) = 1)
                   => (err = NoAggrValuesError(config.agg) /\ value = 0)

\* a search for a supported kind was answered with the metric under the
\* name looked up, and Result() returned its value
C17_Witness ==
    /\ Len(sent) = 1
    /\ config.agg = "avg"
    /\ sent[1].agg.subAggs[1].name = <<"avg", "_", "dur">>
    /\ Extracted
    /\ searcher.res.TotalHits > 0
    /\ \E m \in Lookup(searcher.res.buckets[1], searcher.aggName) : value = m.val /\ value = 20

\* the extended_stats metric of the answered search that Result() read
ExtendedRead ==
    IF ResultCalled /\ config.agg \in ExtendedKinds /\ searcher.res.TotalHits > 0
       /\ searcher.res.aggr /\ Len(searcher.res.buckets) = 1
    THEN {m \in Lookup(searcher.res.buckets[1], searcher.aggName) : ~m.null}
    ELSE {}

\* C18 (as claimed): stdev, stdevmin, stdevmax and var send the same
\* extended-stats request on the field; stdev returns the standard
\* deviation, var the variance, stdevmin the lower and stdevmax the upper
\* standard deviation boundary.
C18_ExtendedStatistics ==
    /\ \A i \in DOMAIN sent :
          config.agg \in ExtendedKinds =>
              /\ Len(sent[i].agg.subAggs) = 1
              /\ sent[i].agg.subAggs[1].type = "extended_stats"
              /\ sent[i].agg.subAggs[1].field = config.key
    /\ \A m \in ExtendedRead :
          value = CASE config.agg = "stdev" -> m.ext.StdDeviation
                    [] config.agg = "var" -> m.ext.Variance
                    [] config.agg = "stdevmin" -> m.ext.StdLower
                    [] config.agg = "stdevmax" -> m.ext.StdUpper

----------------------------------------------------------------------------
(* The range flags *)

\* the range clauses among the clauses cs
RangeClauses(cs) == SelectSeq(cs, LAMBDA q : q.type = "range")

\* every token of the term and range flags of cfg splits into a field and
\* a value
TokensSplit(cfg) ==
    /\ \A i \in DOMAIN cfg.pTerm : Len(fields(cfg.pTerm[i])) >= 2
    /\ \A i \in DOMAIN cfg.nTerm : Len(fields(cfg.nTerm[i])) >= 2
    /\ cfg.pRange # <<>> => Len(fields(cfg.pRange)) >= 2
    /\ cfg.nRange # <<>> => Len(fields(cfg.nRange)) >= 2

\* C20 (as claimed): in the filter-application step, when the not-range flag
\* is set the negated range clause is built from the not-range flag's own
\* field and expression, whether or not the range flag is set, and the
\* positive range clause from the range flag's value only.
C20_NotRangeUsesOwnValue ==
    (InCalls("filter") /\ TokensSplit(config)) =>
        LET own(tok, negative) ==
                IF tok = <<>> THEN NewBoolQuery
                ELSE AddRangeFilterLegacy(newSearcherLegacy(config.index), fields(tok)[1],
                                          fields(tok)[2], negative).qry
        IN  /\ panicVal # "index out of range"
            /\ RangeClauses(searcher.qry.mustNot) = own(config.nRange, TRUE).mustNot
            /\ RangeClauses(searcher.qry.must) = own(config.pRange, FALSE).must

\* the clause the one call of AddRangeFilter appended
RangeClause ==
    LET b == IF config.variant = "current" THEN searcher.flt ELSE searcher.qry
    IN  IF config.negative THEN b.mustNot[1] ELSE b.must[1]

GE == <<">", "=">>
LE == <<"<", "=">>

\* C13 (as claimed): in every variant of AddRangeFilter '>=X' is an
\* inclusive lower bound X, '<=X' an inclusive upper bound X, '>X' an
\* exclusive lower bound X and '<X' an exclusive upper bound X; the
\* two-character operators take precedence, and " TO " is considered only
\* when no operator prefix matches.
C13_RangeOperators ==
    pc = "ranged" =>
        LET r == config.rng
            q == RangeClause
        IN  /\ HasPrefix(r, GE) =>
                  (q.from = Bound(Drop(r, 2)) /\ q.includeLower /\ q.to = NoBound)
            /\ HasPrefix(r, LE) =>
                  (q.to = Bound(Drop(r, 2)) /\ q.includeUpper /\ q.from = NoBound)
            /\ (HasPrefix(r, <<">">>) /\ ~HasPrefix(r, GE)) =>
                  (q.from = Bound(Drop(r, 1)) /\ ~q.includeLower /\ q.to = NoBound)
            /\ (HasPrefix(r, <<"<">>) /\ ~HasPrefix(r, LE)) =>
                  (q.to = Bound(Drop(r, 1)) /\ ~q.includeUpper /\ q.from = NoBound)
            /\ (~HasPrefix(r, <<">">>) /\ ~HasPrefix(r, <<"<">>) /\ Contains(r, TO)) =>
                  /\ q.from = Bound(Split(r, TO)[1])
                  /\ q.to = Bound(Split(r, TO)[2])
                  /\ q.includeLower /\ q.includeUpper

----------------------------------------------------------------------------
(* Filter tokens and the clauses built from them *)

\* length of the field name of token t: its longest prefix of field
\* characters
FieldLen(t) == PrefixLen(t, FieldChars)

\* t has the shape field<sep>value
Shaped(t) ==
    /\ FieldLen(t) > 0
    /\ Len(t) > FieldLen(t)
    /\ t[FieldLen(t) + 1] \in Separators

\* the text of t to the right of its first separator
RightOfSeparator(t) == Drop(t, FieldLen(t) + 1)

\* Filter(s) ran on a command line whose only filter flag is one --term
\* token of the shape field<sep>value
OneTermToken ==
    /\ InCalls("Filter")
    /\ Len(config.pTerm) = 1
    /\ FilterOccurrences(config) = Occ("term", config.pTerm, FALSE)
    /\ Shaped(config.pTerm[1])

\* C11 (as claimed): for a token field<sep>value Fields returns the field
\* and the text to the right of the first separator, verbatim: not
\* truncated at a later ':' or '=', and with nothing removed.
C11_ValueVerbatim ==
    OneTermToken =>
        LET t == config.pTerm[1]
        IN  searcher.flt.must = <<[type |-> "term", field |-> SubSeq(t, 1, FieldLen(t)),
                                   value |-> RightOfSeparator(t)]>>

\* v is w without its leading white space, up to the first newline after
VerbatimButTrimmed(v, w) ==
    \E k \in 0..Len(w) :
        /\ \A i \in 1..k : w[i] \in Whitespace
        /\ k < Len(w) => w[k + 1] \notin Whitespace
        /\ \E n \in 0..(Len(w) - k) :
              /\ v = SubSeq(w, k + 1, k + n)
              /\ \A i \in 1..n : v[i] # "\n"
              /\ k + n < Len(w) => w[k + n + 1] = "\n"

\* C11 (amended): for a token field<sep>value Fields returns the field and
\* the text to the right of the first separator without its leading white
\* space and up to the first newline that follows; it is never truncated at
\* a later ':' or '=', and a value without leading white space and without
\* a newline is returned verbatim.
C11_ValueTrimmed ==
    OneTermToken =>
        LET t == config.pTerm[1]
            w == RightOfSeparator(t)
        IN  /\ panicVal # "index out of range"
            /\ Len(searcher.flt.must) = 1
            /\ searcher.flt.must[1].type = "term"
            /\ searcher.flt.must[1].field = SubSeq(t, 1, FieldLen(t))
            /\ VerbatimButTrimmed(searcher.flt.must[1].value, w)
            /\ ((w = <<>> \/ w[1] \notin Whitespace) /\ ~Contains(w, <<"\n">>))
                  => searcher.flt.must[1].value = w

\* a value with a later separator reached the term clause whole
C11_Witness ==
    /\ OneTermToken
    /\ config.pTerm[1] = <<"a", "=", ":", "a">>
    /\ searcher.flt.must[1].value = <<":", "a">>
    /\ Len(sent) = 1

\* the clause 'field >= x AND field <= y'
Between(field, x, y) ==
    [type |-> "range", field |-> field, from |-> Bound(x), to |-> Bound(y),
     includeLower |-> TRUE, includeUpper |-> TRUE]

\* Filter(s) ran to its end: main went on to Aggregate(s)
Filtered == InCalls("Filter") /\ InCalls("Aggregate")

\* C14: a range flag value 'code:400 TO 599' builds exactly one range clause,
\* on the field code, with the inclusive bounds 400 and 599; in general a
\* value field<sep>X TO Y of --range (--not-range) yields exactly one
\* (negated) range clause with the inclusive pair (X, Y) on the field of
\* the token.
C14_ToIsInclusivePair ==
    Filtered =>
        \A sep \in Separators, x \in BoundTexts, y \in BoundTexts :
            LET tok == CodeField \o <<sep>> \o x \o TO \o y
            IN  /\ config.pRange = tok =>
                      RangeClauses(searcher.flt.must) = <<Between(CodeField, x, y)>>
                /\ config.nRange = tok =>
                      RangeClauses(searcher.flt.mustNot) = <<Between(CodeField, x, y)>>
                /\ (config.pRange = tok /\ config.nRange = <<>>) =>
                      RangeClauses(searcher.flt.mustNot) = <<>>

\* the search for --range 'code:400 TO 599' was sent with the one clause
C14_Witness ==
    /\ Len(sent) = 1
    /\ config.pRange = CodeField \o <<":", "4", "0", "0">> \o TO \o <<"5", "9", "9">>
    /\ config.pTerm = <<>>
    /\ sent[1].query.filter[1].must =
          <<Between(CodeField, <<"4", "0", "0">>, <<"5", "9", "9">>)>>

\* the clause of the query string
QueryString(cfg) == [type |-> "query_string", query |-> cfg.query]

\* the types of the clauses cs
Types(cs) == [i \in DOMAIN cs |-> cs[i].type]

\* the kinds of the positive (negative) flag occurrences, in Filter's order
OccurrenceKinds(cfg, negative) ==
    LET occs == SelectSeq(FilterOccurrences(cfg), LAMBDA o : o.negative = negative)
    IN  [i \in DOMAIN occs |-> occs[i].kind]

\* C19: every filter-family method changes only the filter conjunction and
\* leaves the scored query unchanged; AddQueryString changes only the scored
\* query, as a must clause; Search sends the scored query with the filter
\* conjunction attached as its non-scoring filter.
C19_FilterAndQueryApart ==
    /\ InCalls("Query") =>
          /\ searcher.qry.must = <<QueryString(config)>>
          /\ searcher.qry.mustNot = <<>>
          /\ searcher.flt.filter = <<>>
          /\ ~InCalls("Search") => searcher.qry.filter = <<>>
    /\ Filtered =>
          /\ Types(searcher.flt.must) = OccurrenceKinds(config, FALSE)
          /\ Types(searcher.flt.mustNot) = OccurrenceKinds(config, TRUE)
    /\ \A i \in DOMAIN sent :
          sent[i].query = [must |-> <<QueryString(config)>>, mustNot |-> <<>>,
                           filter |-> <<searcher.flt>>]

\* a search was sent for a command line with a flag of every kind
C19_Witness ==
    /\ Len(sent) = 1
    /\ config.query = "status:500"
    /\ Len(sent[1].query.filter[1].must) = 7
    /\ Len(sent[1].query.filter[1].mustNot) = 5
    /\ Types(sent[1].query.filter[1].mustNot) = <<"exists", "term", "match", "prefix", "range">>
    /\ sent[1].query.must = <<[type |-> "query_string", query |-> "status:500"]>>

----------------------------------------------------------------------------
(* The order of the steps of a run *)

\* position of the first call of f in the history, 0 when it was not called
Pos(f) == IF InCalls(f) THEN Min({i \in DOMAIN calls : calls[i] = f}) ELSE 0

\* the number of calls of f
Count(f) == Cardinality({i \in DOMAIN calls : calls[i] = f})

\* the response of the one search is one the backend gave to the request
Answered == ~searcher.nil /\ ~searcher.res.nil

\* C21: in every run at most one search request is issued; it is issued
\* only after the free-text query, all filters and the metric aggregation
\* have been added to the searcher, and Result() is called only after that
\* search has returned without error.
C21_OneSearchAfterBuildBeforeResult ==
    /\ Len(sent) <= 1
    /\ Count("Search") = Len(sent)
    /\ InCalls("Search") =>
          /\ 0 < Pos("Query") /\ Pos("Query") < Pos("Filter")
          /\ Pos("Filter") < Pos("Aggregate") /\ Pos("Aggregate") < Pos("Search")
          /\ sent[1].query.must = <<QueryString(config)>>
          /\ Len(sent[1].query.filter) = 1
          /\ Len(sent[1].query.filter[1].must) + Len(sent[1].query.filter[1].mustNot)
                = Len(FilterOccurrences(config))
          /\ sent[1].agg = searcher.agg
          /\ config.agg \in Kinds => Len(sent[1].agg.subAggs) = 1
    /\ InCalls("Result") =>
          /\ Count("Result") = 1
          /\ 0 < Pos("Search") /\ Pos("Search") < Pos("Result")
          /\ Answered
          /\ \A i \in DOMAIN check.results : check.results[i].message.err.type # "transport"
    /\ (InCalls("Search") /\ err.type = "transport") => ~InCalls("Result")

\* a run with a filter whose one search was answered and then read
C21_Witness ==
    /\ pc = "exited"
    /\ Len(sent) = 1
    /\ config.pTerm # <<>>
    /\ config.agg = "sum"
    /\ InCalls("Result")
    /\ Answered
    /\ value = 31

\* a run whose one search failed: Result() was never called
C21_WitnessFailed ==
    /\ pc = "exited"
    /\ Len(sent) = 1
    /\ searcher.res.nil
    /\ ~InCalls("Result")
    /\ check.status = "CRITICAL"

----------------------------------------------------------------------------
(* Range expressions of none of the forms *)

\* rng starts with none of >=, <=, >, < and contains no " TO "
Formless(rng) ==
    /\ ~HasPrefix(rng, <<">">>)
    /\ ~HasPrefix(rng, <<"<">>)
    /\ ~Contains(rng, TO)

\* C22: a range expression that starts with none of '>=', '<=', '>', '<' and
\* does not contain ' TO ' yields a range clause with no bound; AddRangeFilter
\* reports no error and appends that clause to the filter conjunction, as
\* must, or as must-not when negated.
C22_FormlessExpressionUnbounded ==
    (pc = "ranged" /\ config.variant = "current" /\ Formless(config.rng)) =>
        LET q == [type |-> "range", field |-> config.field, from |-> NoBound, to |-> NoBound,
                  includeLower |-> TRUE, includeUpper |-> TRUE]
        IN  /\ searcher.flt.must = IF config.negative THEN <<>> ELSE <<q>>
            /\ searcher.flt.mustNot = IF config.negative THEN <<q>> ELSE <<>>
            /\ searcher.qry = NewBoolQuery
            /\ panicVal = ""
            /\ err = NoErr

\* the expression "=4" was appended as a negated clause without bounds
C22_Witness ==
    /\ pc = "ranged"
    /\ config.variant = "current"
    /\ config.rng = <<"=", "4">>
    /\ config.negative
    /\ Len(searcher.flt.mustNot) = 1
    /\ searcher.flt.mustNot[1].from.nil /\ searcher.flt.mustNot[1].to.nil

----------------------------------------------------------------------------
(* One clause per filter flag occurrence *)

\* the occurrences of cfg that are negated, or not, in Filter's order
OccurrencesOf(cfg, negative) ==
    SelectSeq(FilterOccurrences(cfg), LAMBDA o : o.negative = negative)

\* the field name occurrence o puts into its clause
FieldOf(o) == IF o.kind = "exists" THEN o.tok ELSE SubSeq(o.tok, 1, FieldLen(o.tok))

\* the clauses cs are those of the occurrences occs, one each, in order
OneEach(cs, occs) ==
    /\ Len(cs) = Len(occs)
    /\ \A i \in DOMAIN occs : cs[i].type = occs[i].kind /\ cs[i].field = FieldOf(occs[i])

\* C24 (as claimed): Filter adds exactly one clause per filter flag
\* occurrence, a must clause for each positive and a must-not clause for
\* each negative one, in the order exists, not-exists, term, not-term, match,
\* not-match, prefix, not-prefix, regex, range, not-range, keeping the
\* command-line order within each flag.
C24_OneClausePerOccurrence ==
    InCalls("Filter") =>
        /\ OneEach(searcher.flt.must, OccurrencesOf(config, FALSE))
        /\ OneEach(searcher.flt.mustNot, OccurrencesOf(config, TRUE))

----------------------------------------------------------------------------
(* The single-aggregation commands *)

\* the run extracted a value and went on to the two range checks
SingleClassified == pc = "exited" /\ InCalls("Check") /\ ~warnRange.nil /\ ~critRange.nil

\* C23 (as claimed): in the single-aggregation commands a value that
\* triggers the critical range always ends with the final severity CRITICAL,
\* also when it triggers the warning range as well; WARNING is final only
\* when the critical range does not trigger.
C23_CriticalWinsInSingleCommands ==
    SingleClassified =>
        /\ RangeCheck(critRange, value) =>
              (check.status = "CRITICAL" /\ exitCode = Code("CRITICAL"))
        /\ check.status = "WARNING" => ~RangeCheck(critRange, value)

====
